---- MODULE Spec2Model ----
(***************************************************************************)
(* Model of the LENS 3D model viewer (src/viewer.js) and of its earlier    *)
(* variant (src/unnamed/part_000): the load / upload / identification      *)
(* state machine, the bounds normalizer and the material refiner.          *)
(***************************************************************************)
EXTENDS Integers, Sequences, FiniteSets, TLC

(***************************************************************************)
(* Numbers.  A JavaScript number is modelled as an exact rational          *)
(* <<numerator, denominator>> with denominator >= 0.  A denominator of 0   *)
(* stands for the non-finite result (Infinity / NaN) of a division by 0.   *)
(***************************************************************************)
RECURSIVE Gcd(_, _)
Gcd(a, b) == IF b = 0 THEN a ELSE Gcd(b, a % b)

Abs(n) == IF n < 0 THEN -n ELSE n

\* The rational n/d in lowest terms.
Reduce(n, d) ==
    IF d = 0 \/ n = 0 THEN <<n, IF d = 0 THEN 0 ELSE 1>>
    ELSE LET g == Gcd(Abs(n), d) IN <<n \div g, d \div g>>

RInt(n) == <<n, 1>>
RNeg(a) == <<-a[1], a[2]>>
RAdd(a, b) == Reduce(a[1] * b[2] + b[1] * a[2], a[2] * b[2])
RSub(a, b) == RAdd(a, RNeg(b))
RMul(a, b) == Reduce(a[1] * b[1], a[2] * b[2])
RDiv(a, b) == IF b[1] < 0 THEN Reduce(-(a[1] * b[2]), -(a[2] * b[1]))
                          ELSE Reduce(a[1] * b[2], a[2] * b[1])
RHalf(a) == Reduce(a[1], 2 * a[2])
REq(a, b) == a[1] * b[2] = b[1] * a[2]
RLt(a, b) == a[1] * b[2] < b[1] * a[2]
RLeq(a, b) == a[1] * b[2] <= b[1] * a[2]
RFinite(a) == a[2] # 0
RIsZero(a) == a[2] # 0 /\ a[1] = 0
RMax(a, b) == IF RLt(a, b) THEN b ELSE a
RMinOf(S) == CHOOSE r \in S : \A q \in S : RLeq(r, q)
RMaxOf(S) == CHOOSE r \in S : \A q \in S : RLeq(q, r)

\* The value of a property an object does not have.
Undefined == "undefined"

(***************************************************************************)
(* Bounds of the model.                                                    *)
(***************************************************************************)
Unit == 2        \* vertex coordinates are multiples of 1/Unit
MaxCoord == 2    \* largest vertex coordinate, in multiples of 1/Unit
MaxStale == 1    \* number of non-identity transforms a loader may leave
MaxPasses == 2   \* number of times the refinement step is applied to a mesh set

MaxLoads == 2    \* number of loads initiated (the default load and the uploads)
MaxNodes == 5    \* number of nodes of a hierarchy given to setupSkeleton
MaxBones == 4    \* number of bones given to analyzeBoneMovements

VARIABLES
    \* src/viewer.js, module state
    loads,              \* the loads initiated so far, in order of initiation
    objects,            \* the loaded objects the program still refers to, by load
    model,              \* the current model: 0, or the load that delivered it
    sceneModels,        \* the models among the children of the scene
    gridHelper,         \* the current grid (0: the grid of init)
    sceneGrids,         \* the grids among the children of the scene
    skeletonHelper,     \* 0, or the load whose processing built the overlay
    helperVisible,      \* visible flag of the overlay skeletonHelper refers to
    sceneHelpers,       \* the overlays among the children of the scene
    bones,              \* the bone list
    sceneBones,         \* the virtual bones added to the scene as roots
    selectedObject,     \* NoObject, or <<load, node>>
    originalMaterials,  \* Map: mesh -> the material it had when first highlighted
    currentViewMode,
    \* the page
    loadingHidden, loadingText, skeletonStatus, partInfoShown,
    alertShown,         \* the handler that ran last called alert(...)
    \* the normalizer on its own
    nModel, nPhase,
    \* the refiner on its own
    rVariant, rMeshes, rLoaded, rOnce, rPasses,
    \* setupSkeleton on its own
    gObject, gPhase, gRig,
    \* analyzeBoneMovements on its own
    cBones, cPhase, cStructure

viewerVars == <<loads, objects, model, sceneModels, gridHelper, sceneGrids, skeletonHelper,
                helperVisible, sceneHelpers, bones, sceneBones, selectedObject,
                originalMaterials, currentViewMode, loadingHidden, loadingText,
                skeletonStatus, partInfoShown, alertShown>>
normVars == <<nModel, nPhase>>
refineVars == <<rVariant, rMeshes, rLoaded, rOnce, rPasses>>
rigVars == <<gObject, gPhase, gRig>>
classifyVars == <<cBones, cPhase, cStructure>>
vars == <<viewerVars, normVars, refineVars, rigVars, classifyVars>>

(***************************************************************************)
(* Geometry of a loaded object: its vertices relative to the root, and the *)
(* root's local transform (position, scale, rotation about X in quarter    *)
(* turns).                                                                 *)
(***************************************************************************)
Zero3 == <<RInt(0), RInt(0), RInt(0)>>
One3 == <<RInt(1), RInt(1), RInt(1)>>

Grid == (0..MaxCoord) \X ((-1)..MaxCoord) \X (0..MaxCoord)

QuarterTurnX(p) == <<p[1], RNeg(p[3]), p[2]>>

RECURSIVE RotateX(_, _)
RotateX(p, k) == IF k = 0 THEN p ELSE RotateX(QuarterTurnX(p), k - 1)

\* Object3D world matrix of the root: scale, then rotate, then translate.
WorldVertex(m, v) ==
    LET p == <<Reduce(v[1], Unit), Reduce(v[2], Unit), Reduce(v[3], Unit)>>
        s == <<RMul(p[1], m.scale[1]), RMul(p[2], m.scale[2]), RMul(p[3], m.scale[3])>>
        r == RotateX(s, m.rotation)
    IN  <<RAdd(r[1], m.position[1]), RAdd(r[2], m.position[2]), RAdd(r[3], m.position[3])>>

WorldVerts(m) == {WorldVertex(m, v) : v \in m.verts}

\* new THREE.Box3().setFromObject(model)
Box3FromObject(m) ==
    LET W == WorldVerts(m)
    IN  [min |-> <<RMinOf({w[1] : w \in W}), RMinOf({w[2] : w \in W}), RMinOf({w[3] : w \in W})>>,
         max |-> <<RMaxOf({w[1] : w \in W}), RMaxOf({w[2] : w \in W}), RMaxOf({w[3] : w \in W})>>]

getCenter(box) ==
    <<RHalf(RAdd(box.min[1], box.max[1])),
      RHalf(RAdd(box.min[2], box.max[2])),
      RHalf(RAdd(box.min[3], box.max[3]))>>

getSize(box) ==
    <<RSub(box.max[1], box.min[1]),
      RSub(box.max[2], box.min[2]),
      RSub(box.max[3], box.min[3])>>

MaxDim(size) == RMax(RMax(size[1], size[2]), size[3])

targetDim == 15

\* Mutant: the transform left by the loader is not reset before measuring.
ResetTransform_Stale(m) == m

\* model.position.set(0,0,0); model.scale.set(1,1,1); model.rotation.set(0,0,0)
ResetTransform(m) == [m EXCEPT !.position = Zero3, !.scale = One3, !.rotation = 0]

\* Mutant: 1 as a lower bound of the divisor instead of a substitute for 0.
ScaleFor_Epsilon(maxDim) == RDiv(RInt(targetDim), RMax(maxDim, RInt(1)))

\* Mutant: no guard on the divisor.
ScaleFor_NoGuard(maxDim) == RDiv(RInt(targetDim), maxDim)

\* const scale = targetDim / (maxDim || 1)
ScaleFor(maxDim) ==
    RDiv(RInt(targetDim), IF RIsZero(maxDim) \/ ~RFinite(maxDim) THEN RInt(1) ELSE maxDim)

\* Steps 1 and 2 of processLoadedModel: reset, measure, scale and centre.
NormalizeModel(m) ==
    LET r == ResetTransform(m)
        box == Box3FromObject(r)
        center == getCenter(box)
        size == getSize(box)
        scale == ScaleFor(MaxDim(size))
    IN  [r EXCEPT !.scale = <<scale, scale, scale>>,
                  !.position = <<RNeg(RMul(center[1], scale)),
                                 RAdd(RNeg(RMul(center[2], scale)), RHalf(RMul(size[2], scale))),
                                 RNeg(RMul(center[3], scale))>>]

\* A transform the loader may have left on the root of a fresh object.
StaleTransform(k) ==
    [position |-> <<RInt(0), RInt(k), RInt(0)>>,
     scale |-> <<RInt(k + 1), RInt(k + 1), RInt(k + 1)>>,
     rotation |-> k % 4]

LoadedObjects ==
    {[verts |-> {a, b},
      position |-> StaleTransform(k).position,
      scale |-> StaleTransform(k).scale,
      rotation |-> StaleTransform(k).rotation] : a \in Grid, b \in Grid, k \in 0..MaxStale}

NormInit == nModel \in LoadedObjects /\ nPhase = "loaded"

Normalize ==
    /\ nPhase = "loaded"
    /\ nModel' = NormalizeModel(nModel)
    /\ nPhase' = "normalized"

NormIdle == nModel = Undefined /\ nPhase = "idle"

(***************************************************************************)
(* Names.  A name is a sequence of characters; toLowerCase and includes    *)
(* are the String methods the heuristics call.                             *)
(***************************************************************************)
UpperChars == <<"A", "B", "C", "D", "E", "F", "G", "H", "I", "J", "K", "L", "M",
                "N", "O", "P", "Q", "R", "S", "T", "U", "V", "W", "X", "Y", "Z">>
LowerChars == <<"a", "b", "c", "d", "e", "f", "g", "h", "i", "j", "k", "l", "m",
                "n", "o", "p", "q", "r", "s", "t", "u", "v", "w", "x", "y", "z">>

toLowerChar(c) ==
    IF \E i \in DOMAIN UpperChars : UpperChars[i] = c
    THEN LowerChars[CHOOSE i \in DOMAIN UpperChars : UpperChars[i] = c]
    ELSE c

toLowerCase(name) == [i \in DOMAIN name |-> toLowerChar(name[i])]

includes(name, sub) ==
    \E i \in 0..(Len(name) - Len(sub)) : SubSeq(name, i + 1, i + Len(sub)) = sub

(***************************************************************************)
(* Materials.  Opacity, metalness, roughness and the colour (a grey level) *)
(* are in hundredths; a material of a kind that has no metalness or        *)
(* roughness (isStandard false) carries them unread.  A colour of -1 given *)
(* to LoaderMaterial makes a material with no colour.                      *)
(***************************************************************************)
FrontSide == "FrontSide"
DoubleSide == "DoubleSide"

Min(a, b) == IF a < b THEN a ELSE b
Max(a, b) == IF a < b THEN b ELSE a

\* Mutant: the roughness cap multiplies instead of clamping.
refineMaterial_Compound(m, geometry) ==
    [m EXCEPT !.side = DoubleSide,
              !.roughness = IF m.isStandard THEN (@ * 3) \div 10 ELSE @,
              !.metalness = IF m.isStandard THEN Max(@, 70) ELSE @]

\* refineMaterial of src/viewer.js: mutates the material in place.
refineMaterial(m, geometry) ==
    LET lower == toLowerCase(m.name)
        metal == /\ m.isStandard
                 /\ m.name # <<>>
                 /\ \/ includes(lower, <<"m", "e", "t", "a", "l">>)
                    \/ includes(lower, <<"a", "r", "m", "o", "r">>)
        ghost == m.opacity < 5
    IN  [m EXCEPT !.side = DoubleSide,
                  !.vertexColors = IF geometry.present /\ geometry.color THEN TRUE ELSE @,
                  !.mapColorSpace = IF @ # Undefined THEN "srgb" ELSE @,
                  !.envMapIntensity = IF m.isStandard THEN 100 ELSE @,
                  !.metalness = IF metal THEN Max(@, 70) ELSE @,
                  !.roughness = IF metal THEN Min(@, 30) ELSE @,
                  !.transparent = IF ghost THEN FALSE ELSE @,
                  !.opacity = IF ghost THEN 100 ELSE @]

\* upgrade of src/unnamed/part_000: builds a new MeshStandardMaterial.
upgrade(m) ==
    LET isGlow == \/ m.emissive > 0
                  \/ m.name # <<>> /\ includes(toLowerCase(m.name), <<"g", "l", "a", "s", "s">>)
        color == IF m.hasColor THEN m.color ELSE 80
    IN  [name |-> m.name,
         isStandard |-> TRUE,
         hasColor |-> TRUE,
         color |-> IF ~isGlow /\ color < 5 THEN 20 ELSE color,
         mapColorSpace |-> m.mapColorSpace,
         roughness |-> IF isGlow THEN 10 ELSE 60,
         metalness |-> IF isGlow THEN 90 ELSE 40,
         emissive |-> m.emissive,
         transparent |-> m.transparent \/ m.opacity < 100,
         opacity |-> m.opacity,
         side |-> DoubleSide,
         vertexColors |-> FALSE,
         envMapIntensity |-> 100,
         wireframe |-> FALSE]

\* The traverse callback of step 4 of processLoadedModel in src/viewer.js.
\* child.material is a material or an array of materials (or is absent): its
\* items are refined one by one.
RefineMesh(child) ==
    LET hasMaterial == child.material.items # <<>>
        material == [child.material EXCEPT
                        !.items = [k \in DOMAIN @ |-> refineMaterial(@[k], child.geometry)]]
    IN  IF child.isMesh
        THEN [child EXCEPT
                !.castShadow = TRUE,
                !.receiveShadow = TRUE,
                !.frustumCulled = FALSE,
                !.geometry = IF @.present /\ ~@.normal
                             THEN [@ EXCEPT !.normal = TRUE, !.normalsComputed = TRUE]
                             ELSE @,
                !.material = material,
                !.pbrMaterial = IF hasMaterial THEN "own" ELSE @]
        ELSE child

\* The traverse callback of step 4 of processLoadedModel in part_000.
UpgradeMesh(child) ==
    IF child.isMesh
    THEN [child EXCEPT
            !.castShadow = TRUE,
            !.receiveShadow = TRUE,
            !.frustumCulled = FALSE,
            !.material = [@ EXCEPT !.items = [k \in DOMAIN @ |-> upgrade(@[k])]],
            !.geometry = IF @.present
                         THEN [@ EXCEPT !.normal = TRUE, !.normalsComputed = TRUE]
                         ELSE @]
    ELSE child

\* model.traverse(...) of step 4, over the nodes of the model.
RefineModel(variant, meshes) ==
    [i \in DOMAIN meshes |->
        IF variant = "viewer" THEN RefineMesh(meshes[i]) ELSE UpgradeMesh(meshes[i])]

(***************************************************************************)
(* Mesh sets given to the refiner.                                         *)
(***************************************************************************)
MaterialNames ==
    {<<>>, <<"M", "e", "t", "a", "l">>, <<"x", "A", "R", "M", "O", "R">>,
     <<"G", "l", "a", "s", "s">>}

LoaderMaterial(name, std, mr, opacity, transparent, side, color, emissive, map) ==
    [name |-> name,
     isStandard |-> std,
     metalness |-> mr[1],
     roughness |-> mr[2],
     opacity |-> opacity,
     transparent |-> transparent,
     side |-> side,
     hasColor |-> color >= 0,
     color |-> IF color >= 0 THEN color ELSE 0,
     emissive |-> emissive,
     mapColorSpace |-> map,
     vertexColors |-> FALSE,
     envMapIntensity |-> 50,
     wireframe |-> FALSE]

MetalRough == {<<20, 10>>, <<20, 60>>, <<90, 10>>, <<90, 60>>}

LoaderMaterials ==
    {LoaderMaterial(n, TRUE, mr, o, t, s, c, e, mp) :
        n \in MaterialNames, mr \in MetalRough, o \in {0, 4, 5, 100}, t \in BOOLEAN,
        s \in {FrontSide, DoubleSide}, c \in {-1, 2, 50}, e \in {0, 100},
        mp \in {Undefined, "linear"}}
    \cup
    {LoaderMaterial(n, FALSE, <<0, 0>>, o, t, s, c, e, mp) :
        n \in MaterialNames, o \in {0, 4, 5, 100}, t \in BOOLEAN,
        s \in {FrontSide, DoubleSide}, c \in {-1, 2, 50}, e \in {0, 100},
        mp \in {Undefined, "linear"}}

\* The materials that appear in material arrays.
ArrayMaterials ==
    {LoaderMaterial(n, TRUE, <<20, 60>>, o, t, FrontSide, 50, 0, Undefined) :
        n \in MaterialNames, o \in {0, 4, 5, 100}, t \in BOOLEAN}

LoaderGeometries ==
    {[present |-> TRUE, normal |-> FALSE, color |-> TRUE, normalsComputed |-> FALSE],
     [present |-> TRUE, normal |-> TRUE, color |-> FALSE, normalsComputed |-> FALSE]}

NoMaterial == [isArray |-> FALSE, items |-> <<>>]

LoaderMesh(material, geometry) ==
    [isMesh |-> TRUE, material |-> material, geometry |-> geometry,
     shown |-> "own", castShadow |-> FALSE, receiveShadow |-> FALSE,
     frustumCulled |-> TRUE, pbrMaterial |-> Undefined]

LoaderMeshes ==
    {LoaderMesh([isArray |-> FALSE, items |-> <<m>>], g) :
        m \in LoaderMaterials, g \in LoaderGeometries}
    \cup
    {LoaderMesh([isArray |-> TRUE, items |-> <<a, b>>], g) :
        a \in ArrayMaterials, b \in ArrayMaterials, g \in LoaderGeometries}
    \cup
    {LoaderMesh(NoMaterial, g) : g \in LoaderGeometries}

RefineInit ==
    /\ rVariant \in {"viewer", "part_000"}
    /\ \E mesh \in LoaderMeshes : rMeshes = <<mesh>>
    /\ rLoaded = rMeshes
    /\ rOnce = rMeshes
    /\ rPasses = 0

\* The refinement step of processLoadedModel, applied to the mesh set.
Refine ==
    /\ rPasses < MaxPasses
    /\ rMeshes' = RefineModel(rVariant, rMeshes)
    /\ rOnce' = IF rPasses = 0 THEN rMeshes' ELSE rOnce
    /\ rPasses' = rPasses + 1
    /\ UNCHANGED <<rVariant, rLoaded>>

RefineIdle ==
    /\ rVariant = "viewer" /\ rMeshes = <<>> /\ rLoaded = <<>> /\ rOnce = <<>>
    /\ rPasses = 0

(***************************************************************************)
(* The viewer of src/viewer.js.                                            *)
(***************************************************************************)
NoObject == <<0, 0>>
EmptyMap == [x \in {} |-> Undefined]

Node(name, kind, parent, material, geometry) ==
    [name |-> name, kind |-> kind, isMesh |-> kind = "Mesh", isBone |-> kind = "Bone",
     parent |-> parent, material |-> material, geometry |-> geometry,
     shown |-> "own", castShadow |-> FALSE, receiveShadow |-> FALSE,
     frustumCulled |-> TRUE, pbrMaterial |-> Undefined, virtualBone |-> FALSE,
     position |-> <<0, 0, 0>>]

Single(m) == [isArray |-> FALSE, items |-> <<m>>]
Array(ms) == [isArray |-> TRUE, items |-> ms]

SkinMaterial ==
    LoaderMaterial(<<"s", "k", "i", "n">>, FALSE, <<0, 0>>, 100, FALSE, FrontSide, 50, 0,
                   "linear")
ArmorMaterial ==
    LoaderMaterial(<<"A", "r", "m", "o", "r">>, TRUE, <<20, 60>>, 4, TRUE, FrontSide, 2, 0,
                   Undefined)
GlassMaterial ==
    LoaderMaterial(<<"G", "l", "a", "s", "s">>, TRUE, <<90, 10>>, 50, TRUE, DoubleSide, 50,
                   100, Undefined)

SmoothGeometry ==
    [present |-> TRUE, normal |-> TRUE, color |-> FALSE, normalsComputed |-> FALSE]
RawGeometry ==
    [present |-> TRUE, normal |-> FALSE, color |-> TRUE, normalsComputed |-> FALSE]
NoGeometry ==
    [present |-> FALSE, normal |-> FALSE, color |-> FALSE, normalsComputed |-> FALSE]

Geometry(verts, k) ==
    [verts |-> verts,
     position |-> StaleTransform(k).position,
     scale |-> StaleTransform(k).scale,
     rotation |-> StaleTransform(k).rotation]

\* What the loaders deliver: node trees in traversal order (parents first).
SkinnedAsset ==
    [nodes |-> <<Node(<<"R", "i", "g">>, "Group", 0, NoMaterial, NoGeometry),
                 Node(<<"B", "o", "d", "y">>, "Mesh", 1, Single(SkinMaterial), SmoothGeometry),
                 Node(<<"H", "i", "p", "s">>, "Bone", 1, NoMaterial, NoGeometry),
                 Node(<<"L", "e", "f", "t", "T", "h", "i", "g", "h">>, "Bone", 3, NoMaterial,
                      NoGeometry)>>,
     geometry |-> Geometry({<<0, 0, 0>>, <<1, 2, 1>>}, 1)]

MechanicalAsset ==
    [nodes |-> <<Node(<<"M", "e", "c", "h">>, "Group", 0, NoMaterial, NoGeometry),
                 Node(<<"T", "u", "r", "r", "e", "t">>, "Group", 1, NoMaterial, NoGeometry),
                 Node(<<"G", "u", "n">>, "Mesh", 2, Array(<<ArmorMaterial, GlassMaterial>>),
                      RawGeometry),
                 Node(<<"L", "e", "g">>, "Group", 1, NoMaterial, NoGeometry),
                 Node(<<"F", "o", "o", "t">>, "Mesh", 4, Single(ArmorMaterial), SmoothGeometry)>>,
     geometry |-> Geometry({<<0, -1, 0>>, <<2, 0, 1>>}, 0)]

StaticAsset ==
    [nodes |-> <<Node(<<"P", "r", "o", "p">>, "Group", 0, NoMaterial, NoGeometry),
                 Node(<<"P", "l", "a", "n", "e">>, "Mesh", 1, Single(SkinMaterial), RawGeometry)>>,
     geometry |-> Geometry({<<0, 1, 0>>, <<2, 1, 2>>}, 0)]

Assets == <<SkinnedAsset, MechanicalAsset, StaticAsset>>
AssetIds == DOMAIN Assets

\* The names of the files a user may select.
FileNames ==
    {<<"a", ".", "F", "B", "X">>, <<"b", ".", "o", "b", "j">>, <<"c", ".", "g", "l", "b">>,
     <<"d", ".", "g", "l", "t", "f">>, <<"e", ".", "t", "x", "t">>}

\* file.name.split('.').pop().toLowerCase()
extension(name) ==
    LET dots == {i \in DOMAIN name : name[i] = "."}
        from == IF dots = {} THEN 1 ELSE (CHOOSE i \in dots : \A j \in dots : j <= i) + 1
    IN  toLowerCase(SubSeq(name, from, Len(name)))

Indices(nodes) == [n \in DOMAIN nodes |-> n]

HasChildren(nodes, n) == \E c \in DOMAIN nodes : nodes[c].parent = n

MeshesOf(obj) == {n \in DOMAIN obj.nodes : obj.nodes[n].isMesh}

\* The body of the traverse callback of setViewMode.
ApplyViewMode(child, mode) ==
    IF ~child.isMesh THEN child
    ELSE LET shown == IF child.pbrMaterial # Undefined THEN child.pbrMaterial ELSE child.shown
             wire(m) == [m EXCEPT !.wireframe = (mode = "wireframe")]
             applyMode(material) ==
                 [material EXCEPT !.items = [k \in DOMAIN @ |-> wire(@[k])]]
         IN  [child EXCEPT
                !.material = IF shown = "own" THEN applyMode(@) ELSE @,
                !.shown = IF mode = "solid" THEN "solid" ELSE shown]

\* model.traverse(...) of setViewMode.
ViewModeNodes(nodes, mode) == [n \in DOMAIN nodes |-> ApplyViewMode(nodes[n], mode)]

\* The bones setupSkeleton collects: the nodes flagged isBone, in traversal order.
CollectBones(i, nodes) ==
    LET found == SelectSeq(Indices(nodes), LAMBDA n : nodes[n].isBone)
    IN  [k \in DOMAIN found |-> [obj |-> i, node |-> found[k], virtual |-> FALSE]]

\* Mutant: the root of the object counts as a pivot.
Pivots_WithRoot(nodes) == SelectSeq(Indices(nodes), LAMBDA n : HasChildren(nodes, n))

\* Step 1 of autoRigMechanicalModel: the nodes with children, the root excepted.
Pivots(nodes) == SelectSeq(Indices(nodes), LAMBDA n : HasChildren(nodes, n) /\ n # 1)

VirtualBones(i, nodes) ==
    LET pivots == Pivots(nodes)
    IN  [k \in DOMAIN pivots |-> [obj |-> i, node |-> pivots[k], virtual |-> TRUE]]

MarkPivots(nodes) ==
    [n \in DOMAIN nodes |->
        [nodes[n] EXCEPT !.virtualBone = HasChildren(nodes, n) /\ n # 1]]

\* Step 2 of autoRigMechanicalModel: the virtual bone of a pivot is added to the
\* virtual bone of the pivot's parent when it has one, to the scene otherwise.
VirtualBoneParent(nodes) ==
    LET marked == MarkPivots(nodes)
    IN  [n \in {p \in DOMAIN nodes : marked[p].virtualBone} |->
            IF nodes[n].parent # 0 /\ marked[nodes[n].parent].virtualBone
            THEN nodes[n].parent ELSE 0]

RootVirtualBones(i, nodes) ==
    LET parent == VirtualBoneParent(nodes)
    IN  {[obj |-> i, node |-> n, virtual |-> TRUE] : n \in {p \in DOMAIN parent : parent[p] = 0}}

(***************************************************************************)
(* setupSkeleton on its own.  Positions are integer vectors; a node's      *)
(* position is relative to its parent, the root's transform is the uniform *)
(* scale and the position that normalization left on it.                   *)
(***************************************************************************)
VAdd(a, b) == <<a[1] + b[1], a[2] + b[2], a[3] + b[3]>>
VSub(a, b) == <<a[1] - b[1], a[2] - b[2], a[3] - b[3]>>
VScale(k, a) == <<k * a[1], k * a[2], k * a[3]>>

\* The position of node n relative to the root (nodes below the root carry
\* no rotation and no scale).
RECURSIVE PositionInRoot(_, _)
PositionInRoot(nodes, n) ==
    IF nodes[n].parent = 0 THEN <<0, 0, 0>>
    ELSE VAdd(PositionInRoot(nodes, nodes[n].parent), nodes[n].position)

\* child.getWorldPosition(worldPos)
getWorldPosition(root, nodes, n) ==
    VAdd(root.position, VScale(root.scale, PositionInRoot(nodes, n)))

\* Mutant: the position of a virtual bone is not made relative to its parent.
VirtualBonePosition_Absolute(root, nodes) ==
    [n \in DOMAIN VirtualBoneParent(nodes) |-> getWorldPosition(root, nodes, n)]

\* vBone.position of each virtual bone, by source node: the world position of
\* the pivot, minus the world position of the pivot's parent when the virtual
\* bone was added to the parent's virtual bone.
VirtualBonePosition(root, nodes) ==
    LET parent == VirtualBoneParent(nodes)
    IN  [n \in DOMAIN parent |->
            IF parent[n] # 0
            THEN VSub(getWorldPosition(root, nodes, n),
                      getWorldPosition(root, nodes, nodes[n].parent))
            ELSE getWorldPosition(root, nodes, n)]

\* The world position of the virtual bone of pivot n: bones carry no rotation
\* and no scale, and the scene is at the origin.
RECURSIVE VirtualBoneWorld(_, _, _)
VirtualBoneWorld(parent, position, n) ==
    IF parent[n] = 0 THEN position[n]
    ELSE VAdd(VirtualBoneWorld(parent, position, parent[n]), position[n])

\* setupSkeleton(object) on a fresh scene, with autoRigMechanicalModel and
\* updateSkeletonUI: what it leaves in module state, in the scene and on the page.
\* helper is the node the overlay is built from (0: no overlay is built).
setupSkeleton(root, nodes) ==
    LET realBones == CollectBones(1, nodes)
        virtualBones == VirtualBones(1, nodes)
        skinned == Len(realBones) > 0
        rigged == ~skinned /\ Len(virtualBones) > 0
    IN  [bones |-> IF skinned THEN realBones ELSE virtualBones,
         vBoneParent |-> IF skinned THEN EmptyMap ELSE VirtualBoneParent(nodes),
         vBonePosition |-> IF skinned THEN EmptyMap ELSE VirtualBonePosition(root, nodes),
         sceneBones |-> IF rigged THEN RootVirtualBones(1, nodes) ELSE {},
         helper |-> IF skinned THEN 1 ELSE IF rigged THEN virtualBones[1].node ELSE 0,
         helperVisible |-> FALSE,
         status |-> IF rigged THEN [text |-> "Auto-Rig", count |-> Len(virtualBones)]
                    ELSE IF skinned THEN [text |-> "Rig Detected", count |-> Len(realBones)]
                    ELSE [text |-> "Static Model", count |-> 0]]

NodeKinds == {"Group", "Mesh", "Bone"}
Offsets == {<<1, 0, 0>>, <<0, 2, 1>>}

\* The transform normalization leaves on the root of the object.
NormalizedRoot == [position |-> <<0, 3, 0>>, scale |-> 2]

HierarchyNode(kind, parent, offset) ==
    [Node(<<"n">>, kind, parent, NoMaterial, NoGeometry) EXCEPT !.position = offset]

\* Node n and its ancestors, in a list of <<kind, parent>>.
RECURSIVE PathToRoot(_, _)
PathToRoot(h, n) == IF n = 0 THEN {} ELSE {n} \cup PathToRoot(h, h[n][2])

\* The hierarchies of n nodes, each node given as <<kind, parent>>,
\* numbered in traversal order (depth first, parents first): the parent of
\* a node is the node before it or one of that node's ancestors.
RECURSIVE Hierarchies(_)
Hierarchies(n) ==
    IF n = 1 THEN {<<<<"Group", 0>>>>}
    ELSE UNION {{Append(h, <<k, p>>) : k \in NodeKinds, p \in PathToRoot(h, n - 1)} :
                h \in Hierarchies(n - 1)}

\* The node tree of hierarchy h; node n is at (n - 1) * offset from its parent.
LoaderHierarchy(h, offset) ==
    [n \in DOMAIN h |-> HierarchyNode(h[n][1], h[n][2], VScale(n - 1, offset))]

NoRig ==
    [bones |-> <<>>, vBoneParent |-> EmptyMap, vBonePosition |-> EmptyMap, sceneBones |-> {},
     helper |-> 0, helperVisible |-> FALSE, status |-> [text |-> "initial", count |-> 0]]

RigInit ==
    /\ \E n \in 1..MaxNodes : \E h \in Hierarchies(n) : \E offset \in Offsets :
           gObject = [nodes |-> LoaderHierarchy(h, offset), root |-> NormalizedRoot]
    /\ gPhase = "loaded"
    /\ gRig = NoRig

SetupSkeleton ==
    /\ gPhase = "loaded"
    /\ gRig' = setupSkeleton(gObject.root, gObject.nodes)
    /\ gPhase' = "analysed"
    /\ UNCHANGED gObject

RigIdle == gObject = Undefined /\ gPhase = "idle" /\ gRig = Undefined

(***************************************************************************)
(* analyzeBoneMovements on its own.  The structure it builds has a list of *)
(* names per group; here a group without names has the empty list.         *)
(***************************************************************************)
Groups == {"legs", "arms", "core", "head", "other"}

\* Mutant: the name is matched as it is written.
boneGroup_CaseSensitive(boneName) ==
    LET name == boneName
    IN
        IF    includes(name, <<"l", "e", "g">>)
              \/ includes(name, <<"t", "h", "i", "g", "h">>)
              \/ includes(name, <<"c", "a", "l", "f">>)
              \/ includes(name, <<"f", "o", "o", "t">>)
        THEN "legs"
        ELSE IF includes(name, <<"a", "r", "m">>)
              \/ includes(name, <<"s", "h", "o", "u", "l", "d", "e", "r">>)
              \/ includes(name, <<"h", "a", "n", "d">>)
              \/ includes(name, <<"e", "l", "b", "o", "w">>)
        THEN "arms"
        ELSE IF includes(name, <<"s", "p", "i", "n", "e">>)
              \/ includes(name, <<"h", "i", "p", "s">>)
              \/ includes(name, <<"r", "o", "o", "t">>)
              \/ includes(name, <<"p", "e", "l", "v", "i", "s">>)
        THEN "core"
        ELSE IF includes(name, <<"h", "e", "a", "d">>)
              \/ includes(name, <<"n", "e", "c", "k">>)
        THEN "head"
        ELSE "other"

\* The group analyzeBoneMovements gives to a bone of that name.
boneGroup(boneName) ==
    LET name == toLowerCase(boneName)
    IN
        IF    includes(name, <<"l", "e", "g">>)
              \/ includes(name, <<"t", "h", "i", "g", "h">>)
              \/ includes(name, <<"c", "a", "l", "f">>)
              \/ includes(name, <<"f", "o", "o", "t">>)
        THEN "legs"
        ELSE IF includes(name, <<"a", "r", "m">>)
              \/ includes(name, <<"s", "h", "o", "u", "l", "d", "e", "r">>)
              \/ includes(name, <<"h", "a", "n", "d">>)
              \/ includes(name, <<"e", "l", "b", "o", "w">>)
        THEN "arms"
        ELSE IF includes(name, <<"s", "p", "i", "n", "e">>)
              \/ includes(name, <<"h", "i", "p", "s">>)
              \/ includes(name, <<"r", "o", "o", "t">>)
              \/ includes(name, <<"p", "e", "l", "v", "i", "s">>)
        THEN "core"
        ELSE IF includes(name, <<"h", "e", "a", "d">>)
              \/ includes(name, <<"n", "e", "c", "k">>)
        THEN "head"
        ELSE "other"

analyzeBoneMovements(boneNames) ==
    [group \in Groups |-> SelectSeq(boneNames, LAMBDA n : boneGroup(n) = group)]

BoneNames ==
    {<<"L", "e", "f", "t", "T", "h", "i", "g", "h">>,
     <<"R", "i", "g", "h", "t", "C", "a", "l", "f">>,
     <<"S", "p", "i", "n", "e", "0", "1">>,
     <<"H", "e", "a", "d">>,
     <<"F", "o", "r", "e", "a", "r", "m">>,
     <<"N", "e", "c", "k", "R", "o", "o", "t">>,
     <<"F", "O", "O", "T", "A", "R", "M">>,
     <<"T", "a", "i", "l">>,
     <<"h", "i", "p", "s">>}

RECURSIVE BoneLists(_)
BoneLists(n) ==
    IF n = 0 THEN {<<>>}
    ELSE {Append(l, name) : l \in BoneLists(n - 1), name \in BoneNames}

ClassifyInit ==
    /\ \E n \in 1..MaxBones : cBones \in BoneLists(n)
    /\ cPhase = "collected"
    /\ cStructure = [group \in Groups |-> <<>>]

AnalyzeBoneMovements ==
    /\ cPhase = "collected"
    /\ cStructure' = analyzeBoneMovements(cBones)
    /\ cPhase' = "analysed"
    /\ UNCHANGED cBones

ClassifyIdle == cBones = <<>> /\ cPhase = "idle" /\ cStructure = Undefined

\* The object a loader hands to its completion callback.
LoadedObject(a) ==
    [nodes |-> Assets[a].nodes, geometry |-> Assets[a].geometry, vBoneParent |-> EmptyMap]

\* The objects that module state still refers to: the current model, the
\* models in the scene and the object of the selected mesh.  (A Map key alone
\* gives no access to the object's fields.)
Collect(objs, current, inScene, selected) ==
    [i \in {j \in DOMAIN objs : j = current \/ j \in inScene \/ j = selected[1]} |-> objs[i]]

\* Mutant: the object stays among the children of the scene.
sceneRemove_Keep(children, object) == children

\* scene.remove(object)
sceneRemove(children, object) == children \ {object}

\* Mutant: clearIdentification does not put the material back.
ClearedObjects_Keep == objects

\* clearIdentification: the material of the selected mesh is put back.
ClearedObjects ==
    IF selectedObject # NoObject /\ selectedObject \in DOMAIN originalMaterials
    THEN [objects EXCEPT ![selectedObject[1]].nodes[selectedObject[2]].shown =
                             originalMaterials[selectedObject]]
    ELSE objects

ViewerInit ==
    /\ loads = <<[kind |-> "default", status |-> "inflight"]>>
    /\ objects = EmptyMap
    /\ model = 0
    /\ sceneModels = {}
    /\ gridHelper = 0
    /\ sceneGrids = {0}
    /\ skeletonHelper = 0
    /\ helperVisible = EmptyMap
    /\ sceneHelpers = {}
    /\ bones = <<>>
    /\ sceneBones = {}
    /\ selectedObject = NoObject
    /\ originalMaterials = EmptyMap
    /\ currentViewMode = "material"
    /\ loadingHidden = FALSE
    /\ loadingText = "Loading"
    /\ skeletonStatus = [text |-> "initial", count |-> 0]
    /\ partInfoShown = FALSE
    /\ alertShown = FALSE

Init == ViewerInit /\ NormIdle /\ RefineIdle /\ RigIdle /\ ClassifyIdle

\* loader.load(...): a load is initiated; its callbacks run later.
StartedLoad(kind) == Append(loads, [kind |-> kind, status |-> "inflight"])

\* The 'change' handler of the file input (setupFileUpload), for the selected
\* file.  The text of the info paragraph is not modelled.
FileSelect(name) ==
    LET ext == extension(name)
        kind == IF ext = <<"f", "b", "x">> THEN "fbx"
                ELSE IF ext = <<"o", "b", "j">> THEN "obj"
                ELSE IF ext = <<"g", "l", "b">> \/ ext = <<"g", "l", "t", "f">> THEN "gltf"
                ELSE "unsupported"
    IN  /\ kind # "unsupported" => Len(loads) < MaxLoads
        \* clearIdentification()
        /\ objects' = Collect(ClearedObjects, 0, sceneRemove(sceneModels, model), NoObject)
        /\ selectedObject' = NoObject
        /\ partInfoShown' = FALSE
        \* if (model) { scene.remove(model); model = null; }
        /\ sceneModels' = sceneRemove(sceneModels, model)
        /\ model' = 0
        /\ IF kind = "unsupported"
           THEN /\ loads' = loads
                /\ loadingHidden' = TRUE
                /\ alertShown' = TRUE
           ELSE /\ loads' = StartedLoad(kind)
                /\ loadingHidden' = FALSE
                /\ alertShown' = FALSE
        /\ UNCHANGED <<normVars, refineVars, rigVars, classifyVars, gridHelper, sceneGrids, skeletonHelper, helperVisible, sceneHelpers,
                       bones, sceneBones, originalMaterials, currentViewMode, loadingText,
                       skeletonStatus>>

\* The error callback of a load.  (The progress callbacks only rewrite the
\* info paragraph and are left out.)
LoadError(i) ==
    /\ loads[i].status = "inflight"
    /\ loads' = [loads EXCEPT ![i].status = "failed"]
    /\ loadingText' = IF loads[i].kind = "default" THEN "Error loading default model."
                      ELSE IF loads[i].kind = "fbx" THEN "Error loading file"
                      ELSE loadingText
    /\ alertShown' = FALSE
    /\ UNCHANGED <<normVars, refineVars, rigVars, classifyVars, objects, model, sceneModels, gridHelper, sceneGrids, skeletonHelper,
                   helperVisible, sceneHelpers, bones, sceneBones, selectedObject,
                   originalMaterials, currentViewMode, loadingHidden,
                   skeletonStatus, partInfoShown>>

\* Mutant: the view mode is left as it is when a model has been processed.
LoadedViewMode_Current == currentViewMode

\* The mode of the setViewMode call that processLoadedModel makes.
LoadedViewMode == "material"

\* The completion callback of a load: processLoadedModel(object, filename),
\* with the setViewMode('material') and setupSkeleton(model) it ends with.
\* a is what the loader found in the file.
LoadComplete(i, a) ==
    LET loaded == LoadedObject(a)
        refined == RefineModel("viewer", loaded.nodes)
        shown == ViewModeNodes(refined, LoadedViewMode)
        realBones == CollectBones(i, shown)
        virtualBones == VirtualBones(i, shown)
        skinned == Len(realBones) > 0
        rigged == ~skinned /\ Len(virtualBones) > 0
    IN  /\ loads[i].status = "inflight"
        /\ loads' = [loads EXCEPT ![i].status = "done"]
        \* if (model) scene.remove(model); model = object; scene.add(model)
        /\ model' = i
        /\ sceneModels' = sceneRemove(sceneModels, model) \cup {i}
        \* steps 1, 2 and 4
        /\ objects' = Collect((i :> [nodes |-> IF rigged THEN MarkPivots(shown) ELSE shown,
                                     geometry |-> NormalizeModel(loaded.geometry),
                                     vBoneParent |-> IF rigged THEN VirtualBoneParent(shown)
                                                     ELSE EmptyMap]) @@ objects,
                               i, sceneRemove(sceneModels, model) \cup {i}, selectedObject)
        \* step 3
        /\ gridHelper' = i
        /\ sceneGrids' = sceneRemove(sceneGrids, gridHelper) \cup {i}
        /\ currentViewMode' = LoadedViewMode
        \* setupSkeleton and autoRigMechanicalModel
        /\ bones' = IF skinned THEN realBones ELSE virtualBones
        /\ sceneBones' = IF rigged THEN sceneBones \cup RootVirtualBones(i, shown)
                         ELSE sceneBones
        /\ skeletonHelper' = IF skinned \/ rigged THEN i ELSE skeletonHelper
        /\ helperVisible' = IF skinned \/ rigged THEN (i :> FALSE) ELSE helperVisible
        /\ sceneHelpers' = sceneRemove(sceneHelpers, skeletonHelper)
                               \cup (IF skinned \/ rigged THEN {i} ELSE {})
        /\ skeletonStatus' = IF rigged THEN [text |-> "Auto-Rig", count |-> Len(virtualBones)]
                             ELSE IF skinned
                                  THEN [text |-> "Rig Detected", count |-> Len(realBones)]
                                  ELSE [text |-> "Static Model", count |-> 0]
        /\ loadingHidden' = TRUE
        /\ alertShown' = FALSE
        /\ UNCHANGED <<normVars, refineVars, rigVars, classifyVars, selectedObject, originalMaterials, loadingText, partInfoShown>>

\* identifyPart(object), reached by a double click that hits a mesh of the model.
DoubleClickHit(n) ==
    LET object == <<model, n>>
        cleared == ClearedObjects
    IN  /\ model # 0
        /\ n \in MeshesOf(objects[model])
        /\ selectedObject' = object
        /\ originalMaterials' =
               IF object \in DOMAIN originalMaterials THEN originalMaterials
               ELSE (object :> cleared[model].nodes[n].shown) @@ originalMaterials
        /\ objects' = [cleared EXCEPT ![model].nodes[n].shown = "highlight"]
        /\ partInfoShown' = TRUE
        /\ alertShown' = FALSE
        /\ UNCHANGED <<normVars, refineVars, rigVars, classifyVars, loads, model, sceneModels, gridHelper, sceneGrids, skeletonHelper,
                       helperVisible, sceneHelpers, bones, sceneBones, currentViewMode,
                       loadingHidden, loadingText, skeletonStatus>>

\* clearIdentification(), from the page or from a double click that hits nothing.
ClearIdentification ==
    /\ objects' = ClearedObjects
    /\ selectedObject' = NoObject
    /\ partInfoShown' = FALSE
    /\ alertShown' = FALSE
    /\ UNCHANGED <<normVars, refineVars, rigVars, classifyVars, loads, model, sceneModels, gridHelper, sceneGrids, skeletonHelper,
                   helperVisible, sceneHelpers, bones, sceneBones, originalMaterials,
                   currentViewMode, loadingHidden, loadingText, skeletonStatus>>

\* setViewMode(mode), from the page.
SetViewMode(mode) ==
    /\ model # 0
    /\ currentViewMode' = mode
    /\ objects' = [objects EXCEPT ![model].nodes = ViewModeNodes(@, mode)]
    /\ alertShown' = FALSE
    /\ UNCHANGED <<normVars, refineVars, rigVars, classifyVars, loads, model, sceneModels, gridHelper, sceneGrids, skeletonHelper,
                   helperVisible, sceneHelpers, bones, sceneBones, selectedObject,
                   originalMaterials, loadingHidden, loadingText, skeletonStatus,
                   partInfoShown>>

\* Mutant: the overlay is shown, whatever its visibility was.
toggleSkeleton_Show(helper, visible) ==
    IF helper # 0 THEN [visible EXCEPT ![helper] = TRUE] ELSE visible

\* The body of toggleSkeleton, on the visible flag of the overlay.
toggleSkeleton(helper, visible) ==
    IF helper # 0 THEN [visible EXCEPT ![helper] = ~@] ELSE visible

\* toggleSkeleton(), from the page.
ToggleSkeleton ==
    /\ skeletonHelper # 0
    /\ helperVisible' = toggleSkeleton(skeletonHelper, helperVisible)
    /\ alertShown' = FALSE
    /\ UNCHANGED <<normVars, refineVars, rigVars, classifyVars, loads, objects, model, sceneModels, gridHelper, sceneGrids, skeletonHelper,
                   sceneHelpers, bones, sceneBones, selectedObject, originalMaterials,
                   currentViewMode, loadingHidden, loadingText, skeletonStatus,
                   partInfoShown>>

Next ==
    \/ \E name \in FileNames : FileSelect(name)
    \/ \E i \in DOMAIN loads : LoadError(i)
    \/ \E i \in DOMAIN loads, a \in AssetIds : LoadComplete(i, a)
    \/ \E n \in 1..Len(IF model = 0 THEN <<>> ELSE objects[model].nodes) : DoubleClickHit(n)
    \/ ClearIdentification
    \/ \E mode \in {"material", "wireframe", "solid"} : SetViewMode(mode)
    \/ ToggleSkeleton

Spec == Init /\ [][Next]_vars

(***************************************************************************)
(* The normalizer and the refiner on their own, over the objects and mesh  *)
(* sets of their bounded input sets.                                       *)
(***************************************************************************)
ViewerIdle == ViewerInit

NormNext == Normalize /\ UNCHANGED <<viewerVars, refineVars, rigVars, classifyVars>>

InitNorm == NormInit /\ ViewerIdle /\ RefineIdle /\ RigIdle /\ ClassifyIdle

SpecNorm == InitNorm /\ [][NormNext]_vars

RefineNext == Refine /\ UNCHANGED <<viewerVars, normVars, rigVars, classifyVars>>

InitRefine == RefineInit /\ ViewerIdle /\ NormIdle /\ RigIdle /\ ClassifyIdle

SpecRefine == InitRefine /\ [][RefineNext]_vars

RigNext == SetupSkeleton /\ UNCHANGED <<viewerVars, normVars, refineVars, classifyVars>>

InitRig == RigInit /\ ViewerIdle /\ NormIdle /\ RefineIdle /\ ClassifyIdle

SpecRig == InitRig /\ [][RigNext]_vars

ClassifyNext == AnalyzeBoneMovements /\ UNCHANGED <<viewerVars, normVars, refineVars, rigVars>>

InitClassify == ClassifyInit /\ ViewerIdle /\ NormIdle /\ RefineIdle /\ RigIdle

SpecClassify == InitClassify /\ [][ClassifyNext]_vars

(***************************************************************************)
(* Properties of the viewer.                                               *)
(***************************************************************************)
Settled == \A i \in DOMAIN loads : loads[i].status # "inflight"

ErrorTexts == {"Error loading file", "Error loading default model."}

\* C1: a file with an unsupported extension is rejected with an alert and
\* nothing else: no load is started and the current model, the scene and the
\* selection are what they were before the selection.
C1_UnsupportedChangesNothing ==
    [][alertShown' =>
          /\ loads' = loads
          /\ model' = model
          /\ sceneModels' = sceneModels
          /\ selectedObject' = selectedObject]_vars

\* C2: once every callback has run, the current model is the one of the load
\* initiated last (stated for the states that have a current model, so that the
\* removal of the model by a file selection is not what refutes it).
C2_LastInitiatedLoadWins ==
    (Settled /\ loads[Len(loads)].status = "done" /\ model # 0) => model = Len(loads)

\* C3: once a newly loaded model is the current model, the previous model is out
\* of the scene and neither the bone list nor originalMaterials holds an entry
\* for a node of a previously loaded model.
C3_CachesCleared ==
    model # 0 =>
        /\ sceneModels = {model}
        /\ \A k \in DOMAIN bones : bones[k].obj = model
        /\ \A key \in DOMAIN originalMaterials : key[1] = model

\* C4: after completed loads, every joint and every skeleton overlay in the
\* scene was built from the current model.
C4_NothingPersists ==
    model # 0 =>
        /\ \A b \in sceneBones : b.obj = model
        /\ \A h \in sceneHelpers : h = model

\* C5: when a load fails, its error callback does not process a model, leaves
\* the current model as it is and puts an error message on the page.
C5_ErrorReported ==
    [][\A i \in DOMAIN loads :
          (loads[i].status = "inflight" /\ loads'[i].status = "failed") =>
              /\ model' = model
              /\ objects' = objects
              /\ loadingText' \in ErrorTexts]_vars

(***************************************************************************)
(* Properties of the refiner.                                              *)
(***************************************************************************)
\* The material parameters of a mesh set that idempotence is about.
MaterialParameters(meshes) ==
    [i \in DOMAIN meshes |->
        [k \in DOMAIN meshes[i].material.items |->
            LET m == meshes[i].material.items[k]
            IN  <<m.side, m.isStandard, m.metalness, m.roughness, m.opacity,
                  m.transparent, m.hasColor, m.color>>]]

\* C9: after refinement no material has opacity < 0.05 with transparency
\* enabled; a material whose opacity was < 0.05 before refinement is opaque
\* (opacity 1.0, transparent false) after it.
C9_NoGhostMaterial ==
    rPasses >= 1 =>
        \A i \in DOMAIN rMeshes : \A k \in DOMAIN rMeshes[i].material.items :
            LET before == rLoaded[i].material.items[k]
                after == rMeshes[i].material.items[k]
            IN  /\ ~(after.opacity < 5 /\ after.transparent)
                /\ before.opacity < 5 => (~after.transparent /\ after.opacity = 100)

\* C10: applying the refinement step again leaves the material parameters
\* (side, metalness, roughness, opacity, transparent, colour) as the first
\* application left them.
C10_RefineIdempotent ==
    rPasses >= 2 => MaterialParameters(rMeshes) = MaterialParameters(rOnce)

C10_Witness ==
    /\ rPasses >= 2
    /\ rVariant = "viewer"
    /\ rLoaded[1].material.items # <<>>
    /\ rLoaded[1].material.items[1].metalness = 20
    /\ rLoaded[1].material.items[1].roughness = 60
    /\ rMeshes[1].material.items[1].metalness = 70
    /\ rMeshes[1].material.items[1].roughness = 30

(***************************************************************************)
(* Properties of the normalizer.                                           *)
(***************************************************************************)
\* The bounding size of the object itself: that of its vertices under the
\* identity transform.
MeasuredSize ==
    getSize(Box3FromObject([nModel EXCEPT !.position = Zero3, !.scale = One3,
                                          !.rotation = 0]))

PositiveOnEveryAxis(size) == \A i \in 1..3 : RLt(RInt(0), size[i])

\* C6: for a model whose bounding size is > 0 on every axis, the world
\* bounding box after normalization has maximum dimension targetDim (15)
\* and minimum Y equal to 0.
C6_NormalizedBounds ==
    (nPhase = "normalized" /\ PositiveOnEveryAxis(MeasuredSize)) =>
        LET box == Box3FromObject(nModel)
        IN  /\ REq(MaxDim(getSize(box)), RInt(targetDim))
            /\ RIsZero(box.min[2])

C6_Witness ==
    /\ nPhase = "normalized"
    /\ PositiveOnEveryAxis(MeasuredSize)
    /\ ~REq(nModel.scale[1], RInt(1))
    /\ ~RIsZero(nModel.position[2])

\* C7 as stated: the scale is targetDim / max(size.x, size.y, size.z, 1),
\* the same on the three axes.
C7_ScaleWithEpsilon ==
    nPhase = "normalized" =>
        \A i \in 1..3 :
            REq(nModel.scale[i], RDiv(RInt(targetDim), RMax(MaxDim(MeasuredSize), RInt(1))))

\* C7 amended: the scale is targetDim / maxDim, where the divisor is
\* replaced by 1 only when maxDim is 0 (so a model smaller than 1 is scaled
\* by more than targetDim); the same factor is applied on the three axes.
C7_ScaleWithZeroGuard ==
    nPhase = "normalized" =>
        LET maxDim == MaxDim(MeasuredSize)
        IN  \A i \in 1..3 :
                /\ REq(nModel.scale[i], nModel.scale[1])
                /\ RIsZero(maxDim) => REq(nModel.scale[i], RInt(targetDim))
                /\ ~RIsZero(maxDim) => REq(RMul(nModel.scale[i], maxDim), RInt(targetDim))

C7_Witness ==
    /\ nPhase = "normalized"
    /\ RLt(RInt(0), MaxDim(MeasuredSize))
    /\ RLt(MaxDim(MeasuredSize), RInt(1))
    /\ RLt(RInt(targetDim), nModel.scale[1])

\* C8: for a model with zero extent on one or more axes the scale is finite
\* and positive (no division by zero); when the maximum dimension is zero
\* the scale equals targetDim.
C8_DegenerateScale ==
    (nPhase = "normalized" /\ \E i \in 1..3 : RIsZero(MeasuredSize[i])) =>
        \A i \in 1..3 :
            /\ RFinite(nModel.scale[i])
            /\ RLt(RInt(0), nModel.scale[i])
            /\ RIsZero(MaxDim(MeasuredSize)) => REq(nModel.scale[i], RInt(targetDim))

C8_Witness ==
    /\ nPhase = "normalized"
    /\ RIsZero(MaxDim(MeasuredSize))
    /\ REq(nModel.scale[2], RInt(targetDim))

(***************************************************************************)
(* Properties of the skeleton / rig classifier.                            *)
(***************************************************************************)
\* The skinning joints and the internal (non-leaf, non-root) nodes of the
\* hierarchy given to setupSkeleton.
SkinningJoints == {n \in DOMAIN gObject.nodes : gObject.nodes[n].isBone}

InternalNodes ==
    {n \in DOMAIN gObject.nodes :
        n # 1 /\ \E c \in DOMAIN gObject.nodes : gObject.nodes[c].parent = n}

BoneNodes == {gRig.bones[k].node : k \in DOMAIN gRig.bones}

\* C11: a load ends in exactly one outcome: skinned iff the hierarchy has a
\* skinning joint (the bone list is then exactly the joints), else
\* auto-rigged iff a non-root node has a child, else static with no joints;
\* the count on the page is the number of joints of the outcome.
C11_OneOutcome ==
    gPhase = "analysed" =>
        LET text == gRig.status.text
        IN  /\ text \in {"Rig Detected", "Auto-Rig", "Static Model"}
            /\ text = "Rig Detected" <=> SkinningJoints # {}
            /\ text = "Auto-Rig" <=> (SkinningJoints = {} /\ InternalNodes # {})
            /\ text = "Static Model" <=> (SkinningJoints = {} /\ InternalNodes = {})
            /\ text = "Rig Detected" =>
                   /\ BoneNodes = SkinningJoints
                   /\ Len(gRig.bones) = Cardinality(SkinningJoints)
                   /\ \A k \in DOMAIN gRig.bones : ~gRig.bones[k].virtual
                   /\ gRig.status.count = Cardinality(SkinningJoints)
            /\ text = "Auto-Rig" =>
                   /\ Len(gRig.bones) = Cardinality(InternalNodes)
                   /\ gRig.status.count = Cardinality(InternalNodes)
            /\ text = "Static Model" => (gRig.bones = <<>> /\ gRig.status.count = 0)

C11_Witness ==
    /\ gPhase = "analysed"
    /\ gRig.status = [text |-> "Rig Detected", count |-> 2]
    /\ InternalNodes # {}

\* The nearest ancestor of node n that has a virtual joint (0: none has).
RECURSIVE NearestJointAncestor(_, _, _)
NearestJointAncestor(nodes, joints, n) ==
    LET p == nodes[n].parent
    IN  IF p = 0 THEN 0
        ELSE IF p \in joints THEN p
        ELSE NearestJointAncestor(nodes, joints, p)

\* C12: with no skinning joint, auto-rig makes one virtual joint per internal
\* node; the world position of each is that of its source node, and each is
\* a child of the virtual joint of the nearest ancestor of its source node
\* that has one, a root joint in the scene when none has.
C12_VirtualJoints ==
    (gPhase = "analysed" /\ SkinningJoints = {}) =>
        /\ Len(gRig.bones) = Cardinality(InternalNodes)
        /\ BoneNodes = InternalNodes
        /\ \A k \in DOMAIN gRig.bones : gRig.bones[k].virtual
        /\ DOMAIN gRig.vBoneParent = InternalNodes
        /\ \A n \in InternalNodes :
              /\ VirtualBoneWorld(gRig.vBoneParent, gRig.vBonePosition, n)
                     = getWorldPosition(gObject.root, gObject.nodes, n)
              /\ gRig.vBoneParent[n] = NearestJointAncestor(gObject.nodes, InternalNodes, n)
              /\ gRig.vBoneParent[n] = 0
                     <=> [obj |-> 1, node |-> n, virtual |-> TRUE] \in gRig.sceneBones

C12_Witness ==
    /\ gPhase = "analysed"
    /\ SkinningJoints = {}
    /\ Cardinality(InternalNodes) = 3
    /\ \E n \in InternalNodes :
          /\ gRig.vBoneParent[n] # 0
          /\ gRig.vBoneParent[gRig.vBoneParent[n]] # 0
          /\ gRig.vBonePosition[n] # getWorldPosition(gObject.root, gObject.nodes, n)

\* The virtual joint of pivot n and the virtual joints above it.
RECURSIVE JointPath(_, _)
JointPath(parent, n) == {n} \cup (IF parent[n] = 0 THEN {} ELSE JointPath(parent, parent[n]))

\* C19: when auto-rig makes virtual joints, each of them is the joint the
\* overlay is built from or a descendant of it in the virtual-joint tree.
C19_OverlayCoversJoints ==
    (gPhase = "analysed" /\ gRig.status.text = "Auto-Rig") =>
        \A n \in BoneNodes : gRig.helper \in JointPath(gRig.vBoneParent, n)

(***************************************************************************)
(* Properties of the bone classification.                                  *)
(***************************************************************************)
KeywordTable ==
    [legs |-> {<<"l", "e", "g">>, <<"t", "h", "i", "g", "h">>, <<"c", "a", "l", "f">>, <<"f", "o", "o", "t">>},
     arms |-> {<<"a", "r", "m">>, <<"s", "h", "o", "u", "l", "d", "e", "r">>, <<"h", "a", "n", "d">>, <<"e", "l", "b", "o", "w">>},
     core |-> {<<"s", "p", "i", "n", "e">>, <<"h", "i", "p", "s">>, <<"r", "o", "o", "t">>, <<"p", "e", "l", "v", "i", "s">>},
     head |-> {<<"h", "e", "a", "d">>, <<"n", "e", "c", "k">>}]

MatchesRow(boneName, group) ==
    \E keyword \in KeywordTable[group] : includes(toLowerCase(boneName), keyword)

FirstMatchingRow(boneName) ==
    IF MatchesRow(boneName, "legs") THEN "legs"
    ELSE IF MatchesRow(boneName, "arms") THEN "arms"
    ELSE IF MatchesRow(boneName, "core") THEN "core"
    ELSE IF MatchesRow(boneName, "head") THEN "head"
    ELSE "other"

\* C13: each joint is in exactly one group, that of the first row of the
\* keyword table (legs, arms, core, head) a keyword of which is in its
\* lower-cased name, else other; the group counts add up to the number of
\* joints; LeftThigh, RightCalf, Spine01, Head gives legs 2, core 1, head 1.
C13_BoneGroups ==
    cPhase = "analysed" =>
        /\ \A group \in Groups :
              cStructure[group] = SelectSeq(cBones, LAMBDA n : FirstMatchingRow(n) = group)
        /\ Len(cStructure["legs"]) + Len(cStructure["arms"]) + Len(cStructure["core"])
               + Len(cStructure["head"]) + Len(cStructure["other"]) = Len(cBones)
        /\ cBones = <<<<"L", "e", "f", "t", "T", "h", "i", "g", "h">>, <<"R", "i", "g", "h", "t", "C", "a", "l", "f">>, <<"S", "p", "i", "n", "e", "0", "1">>, <<"H", "e", "a", "d">>>> =>
              /\ Len(cStructure["legs"]) = 2
              /\ Len(cStructure["core"]) = 1
              /\ Len(cStructure["head"]) = 1
              /\ Len(cStructure["arms"]) = 0
              /\ Len(cStructure["other"]) = 0

C13_Witness ==
    /\ cPhase = "analysed"
    /\ cBones = <<<<"N", "e", "c", "k", "R", "o", "o", "t">>, <<"F", "O", "O", "T", "A", "R", "M">>, <<"F", "o", "r", "e", "a", "r", "m">>, <<"T", "a", "i", "l">>>>
    /\ Len(cStructure["core"]) = 1
    /\ Len(cStructure["legs"]) = 1
    /\ Len(cStructure["arms"]) = 1
    /\ Len(cStructure["other"]) = 1

(***************************************************************************)
(* Further properties of the viewer.                                       *)
(***************************************************************************)
\* C14: a call of toggleSkeleton flips the visibility of the overlay, so that
\* a second call gives back the value before the first, and changes nothing
\* else: bone list, model, selection, view mode and the scene are the same.
C14_TogglePureFlip ==
    [][ToggleSkeleton =>
          /\ helperVisible'[skeletonHelper] = ~helperVisible[skeletonHelper]
          /\ toggleSkeleton(skeletonHelper', helperVisible') = helperVisible
          /\ UNCHANGED <<bones, model, objects, selectedObject, originalMaterials,
                         currentViewMode, skeletonHelper, sceneModels, sceneGrids,
                         sceneHelpers, sceneBones, skeletonStatus>>]_vars

C14_Witness ==
    /\ skeletonHelper # 0
    /\ helperVisible[skeletonHelper]
    /\ currentViewMode = "solid"
    /\ selectedObject # NoObject

\* The meshes of the current model all show their own refined material, with
\* wireframe off.
ShowsRefinedMaterials(objs, current) ==
    \A n \in MeshesOf(objs[current]) :
        LET mesh == objs[current].nodes[n]
        IN  /\ mesh.shown = "own"
            /\ mesh.pbrMaterial = "own"
            /\ \A k \in DOMAIN mesh.material.items : ~mesh.material.items[k].wireframe

\* C15: when a load completes, the view mode is 'material' whatever it was
\* before, and every mesh of the new model shows its own refined material
\* with wireframe off.
C15_LoadResetsViewMode ==
    [][(\E i \in DOMAIN loads : loads[i].status = "inflight" /\ loads'[i].status = "done") =>
          /\ currentViewMode' = "material"
          /\ model' # 0
          /\ ShowsRefinedMaterials(objects', model')]_vars

\* A second model was processed while the meshes of the first, one of them
\* selected, were in 'solid' mode.
C15_Witness ==
    /\ model = 2
    /\ currentViewMode = "material"
    /\ ShowsRefinedMaterials(objects, model)
    /\ selectedObject[1] = 1
    /\ \E n \in MeshesOf(objects[1]) : objects[1].nodes[n].shown = "solid"

\* C16: the scene holds at most one model, and a model is in the scene
\* exactly when it is the current model.
C16_OneModelInScene ==
    /\ Cardinality(sceneModels) <= 1
    /\ \A i \in DOMAIN loads : i \in sceneModels <=> i = model

\* The default load completed after an upload did.
C16_Witness ==
    /\ Len(loads) = 2
    /\ loads[1].status = "done"
    /\ loads[2].status = "done"
    /\ model = 1
    /\ sceneModels = {1}

\* C17: whenever no part is selected, every mesh of the model shows what the
\* current view mode requires: its refined material in 'material' and
\* 'wireframe' modes (wireframe on in the latter only), the solid material
\* in 'solid' mode.
C17_MaterialsFollowViewMode ==
    (model # 0 /\ selectedObject = NoObject) =>
        \A n \in MeshesOf(objects[model]) :
            LET mesh == objects[model].nodes[n]
            IN  IF currentViewMode = "solid" THEN mesh.shown = "solid"
                ELSE /\ mesh.shown = "own"
                     /\ \A k \in DOMAIN mesh.material.items :
                           mesh.material.items[k].wireframe = (currentViewMode = "wireframe")

\* C18: selectedObject is null or a mesh of the current model.
C18_SelectionInCurrentModel ==
    selectedObject # NoObject =>
        /\ selectedObject[1] = model
        /\ selectedObject[2] \in MeshesOf(objects[model])

\* C20: a mesh that carries the highlight material is selectedObject (so at
\* most one mesh does), and originalMaterials holds no highlight material.
C20_OneHighlight ==
    /\ \A i \in DOMAIN objects : \A n \in DOMAIN objects[i].nodes :
          objects[i].nodes[n].shown = "highlight" => selectedObject = <<i, n>>
    /\ \A key \in DOMAIN originalMaterials : originalMaterials[key] # "highlight"

\* Two meshes have been identified, the second while the first was selected.
C20_Witness ==
    /\ selectedObject # NoObject
    /\ objects[selectedObject[1]].nodes[selectedObject[2]].shown = "highlight"
    /\ Cardinality(DOMAIN originalMaterials) >= 2

\* The grid and the overlays among the children of the scene.
OneGridOneOverlay ==
    /\ Cardinality(sceneGrids) = 1
    /\ sceneGrids = {gridHelper}
    /\ Cardinality(sceneHelpers) <= 1
    /\ \A h \in sceneHelpers : h = skeletonHelper

\* C21: the scene holds exactly one grid and at most one skeleton overlay; an
\* overlay in the scene is the one skeletonHelper refers to; it is hidden when
\* a load has completed and becomes visible by toggleSkeleton only.
C21_OneGridOneOverlay ==
    /\ []OneGridOneOverlay
    /\ [][/\ (\E i \in DOMAIN loads :
                 loads[i].status = "inflight" /\ loads'[i].status = "done")
              => \A h \in sceneHelpers' : ~helperVisible'[h]
          /\ (\E h \in sceneHelpers' :
                 helperVisible'[h] /\ ~(h \in sceneHelpers /\ helperVisible[h]))
              => ToggleSkeleton]_vars

\* A static model was processed after a rigged one, the overlay of which had
\* been made visible.
C21_Witness ==
    /\ Len(loads) = 2
    /\ \A i \in DOMAIN loads : loads[i].status = "done"
    /\ model # 0
    /\ skeletonStatus.text = "Static Model"
    /\ skeletonHelper # 0
    /\ helperVisible[skeletonHelper]
    /\ sceneHelpers = {}
    /\ gridHelper = model
====
